---------------------------- MODULE Spec2Model ----------------------------
(***************************************************************************)
(* A model of bot.py: the NSD news monitor (class NSDMonitor), its chat    *)
(* command handlers and the scheduled job.                                 *)
(*                                                                         *)
(* Text is modelled as a sequence of characters.  A character is a TLA+    *)
(* string naming one code point: an ASCII character names itself, the      *)
(* Cyrillic letter transliterated x is "cy_x" (capital "CY_X"), and        *)
(* U+00DF (sharp s) is "eszett".  Python's None is the one-element         *)
(* sequence None, which is no text of the model.                           *)
(***************************************************************************)
EXTENDS Naturals, Sequences, FiniteSets, Bags, TLC

None == <<"None">>

-----------------------------------------------------------------------------
(* str.upper, str.lower, str.strip and the regular expressions             *)

AsciiUpper == <<"A","B","C","D","E","F","G","H","I","J","K","L","M",
                "N","O","P","Q","R","S","T","U","V","W","X","Y","Z">>
AsciiLower == <<"a","b","c","d","e","f","g","h","i","j","k","l","m",
                "n","o","p","q","r","s","t","u","v","w","x","y","z">>
CyrUpper == <<"CY_A","CY_B","CY_V","CY_G","CY_D","CY_E","CY_I","CY_K","CY_L",
              "CY_N","CY_O","CY_P","CY_R","CY_T","CY_U","CY_F","CY_H","CY_SH","CY_Y",
              "CY_Z","CY_S">>
CyrLower == <<"cy_a","cy_b","cy_v","cy_g","cy_d","cy_e","cy_i","cy_k","cy_l",
              "cy_n","cy_o","cy_p","cy_r","cy_t","cy_u","cy_f","cy_h","cy_sh","cy_y",
              "cy_z","cy_s">>
Uppers == AsciiUpper \o CyrUpper
Lowers == AsciiLower \o CyrLower

DigitChars == {"0","1","2","3","4","5","6","7","8","9"}
UpperAZ == {AsciiUpper[i] : i \in 1..Len(AsciiUpper)}
Whitespace == {" ", "\n"}

\* c.upper() for one character: a sequence, since "eszett".upper() is "SS".
UpperChar(c) ==
    IF c = "eszett" THEN <<"S", "S">>
    ELSE IF \E i \in 1..Len(Lowers) : Lowers[i] = c
         THEN <<Uppers[CHOOSE i \in 1..Len(Lowers) : Lowers[i] = c]>>
         ELSE <<c>>

\* c.lower() for one character.
LowerChar(c) ==
    IF \E i \in 1..Len(Uppers) : Uppers[i] = c
    THEN Lowers[CHOOSE i \in 1..Len(Uppers) : Uppers[i] = c]
    ELSE c

RECURSIVE upper(_)
upper(s) == IF s = <<>> THEN <<>> ELSE UpperChar(Head(s)) \o upper(Tail(s))

lower(s) == [i \in 1..Len(s) |-> LowerChar(s[i])]

RECURSIVE lstrip(_)
lstrip(s) == IF s # <<>> /\ Head(s) \in Whitespace THEN lstrip(Tail(s)) ELSE s

RECURSIVE rstrip(_)
rstrip(s) ==
    IF s # <<>> /\ s[Len(s)] \in Whitespace THEN rstrip(SubSeq(s, 1, Len(s) - 1)) ELSE s

strip(s) == rstrip(lstrip(s))

\* The {10} of both ISIN patterns; the code is "RU" and IsinTail more characters.
IsinTail == 10
IsinLen == 2 + IsinTail

\* RU[0-9A-Z]{10} matched at position i of s.
IsinAt(s, i) ==
    /\ i >= 1
    /\ i + IsinLen - 1 <= Len(s)
    /\ s[i] = "R"
    /\ s[i + 1] = "U"
    /\ \A k \in (i + 2)..(i + IsinLen - 1) : s[k] \in DigitChars \cup UpperAZ

\* re.match(r'^RU[0-9A-Z]{10}$', s): "$" also matches before a final newline.
MatchIsin(s) ==
    /\ IsinAt(s, 1)
    /\ \/ Len(s) = IsinLen
       \/ Len(s) = IsinLen + 1 /\ s[Len(s)] = "\n"

\* re.search(r'RU[0-9A-Z]{10}', s): the leftmost match, or None.
SearchIsin(s) ==
    IF \E i \in 1..Len(s) : IsinAt(s, i)
    THEN LET i == CHOOSE j \in 1..Len(s) :
                    IsinAt(s, j) /\ \A k \in 1..(j - 1) : ~IsinAt(s, k)
         IN  SubSeq(s, i, i + IsinLen - 1)
    ELSE None

\* needle in hay (Python's substring test).
Contains(hay, needle) ==
    \E i \in 1..(Len(hay) - Len(needle) + 1) :
        SubSeq(hay, i, i + Len(needle) - 1) = needle

\* The largest j >= i - 1 with s[i..j] all in S: the end of a greedy run.
RunEnd(s, i, S) ==
    CHOOSE j \in (i - 1)..Len(s) :
        /\ \A k \in i..j : s[k] \in S
        /\ j = Len(s) \/ s[j + 1] \notin S

Rub == <<"cy_r", "cy_u", "cy_b">>

\* (\d+[.,]\d+)\s*rub with re.IGNORECASE matched at position i of s.  Both \d+
\* are greedy and a shorter run is followed by a digit, so only the maximal runs
\* can match.
AmountAt(s, i) ==
    /\ i \in 1..Len(s)
    /\ s[i] \in DigitChars
    /\ LET j == RunEnd(s, i, DigitChars)
       IN  /\ j + 2 <= Len(s)
           /\ s[j + 1] \in {".", ","}
           /\ s[j + 2] \in DigitChars
           /\ LET k == RunEnd(s, j + 2, DigitChars)
                  m == RunEnd(s, k + 1, Whitespace)
              IN  /\ m + Len(Rub) <= Len(s)
                  /\ lower(SubSeq(s, m + 1, m + Len(Rub))) = Rub

\* group(1) of the match at i.
AmountGroup(s, i) ==
    SubSeq(s, i, RunEnd(s, RunEnd(s, i, DigitChars) + 2, DigitChars))

\* re.search of the amount pattern: group(1) of the leftmost match, or None.
SearchAmount(s) ==
    IF \E i \in 1..Len(s) : AmountAt(s, i)
    THEN LET i == CHOOSE j \in 1..Len(s) :
                    AmountAt(s, j) /\ \A k \in 1..(j - 1) : ~AmountAt(s, k)
         IN  AmountGroup(s, i)
    ELSE None

-----------------------------------------------------------------------------
(* NSDMonitor.parse_news_page                                              *)
(*                                                                         *)
(* A page is [h1, body, time]: the text of its first h1 element (None when *)
(* it has none), its other raw content, and the text of its first time (or *)
(* div.date) element (None when it has none).                              *)

KwCoupon == <<"cy_v","cy_y","cy_p","cy_l","cy_a","cy_t","cy_a"," ",
              "cy_k","cy_u","cy_p","cy_o","cy_n","cy_n","cy_o","cy_g","cy_o"," ",
              "cy_d","cy_o","cy_h","cy_o","cy_d","cy_a">>
KwRedemption == <<"cy_p","cy_o","cy_g","cy_a","cy_sh","cy_e","cy_n","cy_i","cy_e">>
KwOffer == <<"cy_o","cy_f","cy_e","cy_r","cy_t","cy_a">>

\* html_content as the amount pattern sees it; "<" stands for the markup between
\* the parts, which matches nothing of the pattern.
RawText(page) ==
    (IF page.h1 = None THEN <<>> ELSE page.h1) \o <<"<">> \o page.body \o <<"<">>
        \o (IF page.time = None THEN <<>> ELSE page.time)

\* The classification with the redemption keyword looked for first.
EventType_redemption_first(title) ==
    IF Contains(lower(title), KwRedemption) THEN "Pogashenie"
    ELSE IF Contains(lower(title), KwCoupon) THEN "Vyplata kuponnogo dohoda"
    ELSE IF Contains(lower(title), KwOffer) THEN "Oferta"
    ELSE "Neizvestno"

EventType(title) ==
    IF Contains(lower(title), KwCoupon) THEN "Vyplata kuponnogo dohoda"
    ELSE IF Contains(lower(title), KwRedemption) THEN "Pogashenie"
    ELSE IF Contains(lower(title), KwOffer) THEN "Oferta"
    ELSE "Neizvestno"

TitleUnknown == <<"CY_N","cy_e","cy_i","cy_z","cy_v","cy_e","cy_s","cy_t","cy_n","cy_o">>

\* now: datetime.now().strftime("%d.%m.%Y") at the call.
parse_news_page(page, now) ==
    LET title == IF page.h1 = None THEN TitleUnknown ELSE strip(page.h1)
        amount == SearchAmount(RawText(page))
    IN  [title |-> title,
         isin |-> SearchIsin(title),
         event_type |-> EventType(title),
         payment_amount |-> IF amount = None THEN None
                            ELSE amount \o <<" ">> \o Rub \o <<".">>,
         published_date |-> IF page.time = None THEN now ELSE strip(page.time)]

-----------------------------------------------------------------------------
(* The two tables of nsd_news.db.  A table is a bag of rows; the columns   *)
(* id and created_at, which nothing reads, are left out.                   *)

\* SELECT 1 FROM tracked_news WHERE news_id = ?
is_news_tracked(table, news_id) ==
    \E row \in BagToSet(table) : row.news_id = news_id

\* INSERT OR IGNORE under UNIQUE(news_id); inserted is cursor.rowcount > 0.
save_news(table, news) ==
    IF \E row \in BagToSet(table) : row.news_id = news.news_id
    THEN [table |-> table, inserted |-> FALSE]
    ELSE [table |-> table (+) SetToBag({news}), inserted |-> TRUE]

\* INSERT without the conflict clause into user_isins.
add_isin_tracking_plain(table, isin_code, user_id) ==
    [table |-> table (+) SetToBag({[user_id |-> user_id, isin |-> upper(isin_code)]}),
     inserted |-> TRUE]

\* CREATE TABLE IF NOT EXISTS, then INSERT OR IGNORE under UNIQUE(user_id, isin).
add_isin_tracking(table, isin_code, user_id) ==
    LET row == [user_id |-> user_id, isin |-> upper(isin_code)]
    IN  IF BagIn(row, table)
        THEN [table |-> table, inserted |-> FALSE]
        ELSE [table |-> table (+) SetToBag({row}), inserted |-> TRUE]

\* What a statement on a table that does not exist does: sqlite3.OperationalError.
Raised == <<"OperationalError">>

\* SELECT isin FROM user_isins WHERE user_id = ?: the isins with the number of
\* rows that hold each, or Raised while the table has not been created.
get_user_isins(exists, table, user_id) ==
    IF ~exists THEN Raised
    ELSE LET codes == {row.isin : row \in {r \in BagToSet(table) : r.user_id = user_id}}
         IN  [c \in codes |-> CopiesIn([user_id |-> user_id, isin |-> c], table)]

\* Every order of the elements of a set.
RECURSIVE Orderings(_)
Orderings(S) ==
    IF S = {} THEN {<<>>}
    ELSE UNION {{<<x>> \o rest : rest \in Orderings(S \ {x})} : x \in S}

\* SELECT user_id FROM user_isins: one user_id per row, so a subscriber of two
\* codes comes twice.
SelectUserIds(table) ==
    LET rows == {<<r, k>> : r \in BagToSet(table), k \in 1..BagCardinality(table)}
        kept == {rk \in rows : rk[2] <= CopiesIn(rk[1], table)}
    IN  {[i \in 1..Len(o) |-> o[i][1].user_id] : o \in Orderings(kept)}

\* SELECT DISTINCT user_id FROM user_isins: the statement has no ORDER BY, so
\* the result is the distinct user_ids in any order.
SelectDistinctUserIds(table) ==
    Orderings({row.user_id : row \in BagToSet(table)})

-----------------------------------------------------------------------------
(* NSDMonitor.get_recent_news and NSDMonitor.check_new_news                *)
(*                                                                         *)
(* The remote index is [kind, anchors, page]: kind is "ok" (status 200),   *)
(* "bad_status", "network" or "timeout"; anchors are the a elements of the *)
(* body in document order, each [href, text] with href split at "/"; page  *)
(* is the body as parse_news_page sees it.                                 *)

base_url == <<"https:", "", "nsddata.ru">>

\* re.compile(r'/ru/news/view/') found in href.
IsNewsHref(href) ==
    \E i \in 2..(Len(href) - 3) :
        href[i] = "ru" /\ href[i + 1] = "news" /\ href[i + 2] = "view"

MaxCandidates == 10

\* The whole list.
TakeAll(s, n) == s

Take(s, n) == SubSeq(s, 1, IF Len(s) < n THEN Len(s) ELSE n)

NoTitle == "Bez nazvaniya"

\* The news_data of one anchor: lines 151-167.  The details are parsed from the
\* index page for every anchor.
NewsData(element, page, now) ==
    LET href == element.href
        news_details == parse_news_page(page, now)  \* line 157: the index page
    IN  [news_id |-> href[Len(href)],
         news_url |-> IF href[1] = "" /\ Len(href) > 1
                      THEN base_url \o Tail(href) ELSE href,
         title |-> IF element.text = "" THEN NoTitle ELSE element.text,
         isin |-> news_details.isin,
         event_type |-> news_details.event_type,
         payment_amount |-> news_details.payment_amount,
         published_date |-> news_details.published_date]

\* get_recent_news that parses whatever body came, whatever the status.
get_recent_news_any_status(response, now) ==
    LET news_elements ==
            SelectSeq(response.anchors, LAMBDA a : IsNewsHref(a.href))
        first == Take(news_elements, MaxCandidates)
    IN  [i \in 1..Len(first) |-> NewsData(first[i], response.page, now)]

get_recent_news(response, now) ==
    IF response.kind # "ok" THEN <<>>
    ELSE LET news_elements ==
                 SelectSeq(response.anchors, LAMBDA a : IsNewsHref(a.href))
             first == Take(news_elements, MaxCandidates)
         IN  [i \in 1..Len(first) |-> NewsData(first[i], response.page, now)]

\* The body of the loop of check_new_news without the call of save_news.
check_step_unsaved(acc, news) ==
    IF ~is_news_tracked(acc.table, news.news_id)
    THEN [acc EXCEPT !.new_news = Append(@, news)]
    ELSE acc

\* The body of the loop of check_new_news without its duplicate checks: a plain
\* INSERT of every candidate.
check_step_no_dedup(acc, news) ==
    [table |-> acc.table (+) SetToBag({news}),
     new_news |-> Append(acc.new_news, news),
     inserted |-> Append(acc.inserted, news.news_id)]

\* The body of the loop of check_new_news were the INSERT an INSERT OR REPLACE
\* that nothing guards: the row of the news_id is replaced by the candidate.
check_step_upsert(acc, news) ==
    LET others == {row \in BagToSet(acc.table) : row.news_id # news.news_id}
        kept == [row \in others |-> acc.table[row]]
    IN  IF is_news_tracked(acc.table, news.news_id)
        THEN [acc EXCEPT !.table = kept (+) SetToBag({news})]
        ELSE [table |-> kept (+) SetToBag({news}),
              new_news |-> Append(acc.new_news, news),
              inserted |-> Append(acc.inserted, news.news_id)]

\* The body of the loop of check_new_news: lines 183-186.  acc.inserted lists
\* the news_ids for which save_news returned true.
check_step(acc, news) ==
    IF ~is_news_tracked(acc.table, news.news_id)
    THEN LET s == save_news(acc.table, news)
         IN  IF s.inserted
             THEN [table |-> s.table,
                   new_news |-> Append(acc.new_news, news),
                   inserted |-> Append(acc.inserted, news.news_id)]
             ELSE [acc EXCEPT !.table = s.table]
    ELSE acc

\* The loop of check_new_news were it to stop after its first turn.
check_loop_once(acc, recent_news) ==
    IF recent_news = <<>> THEN acc ELSE check_step(acc, Head(recent_news))

RECURSIVE check_loop(_, _)
check_loop(acc, recent_news) ==
    IF recent_news = <<>> THEN acc
    ELSE check_loop(check_step(acc, Head(recent_news)), Tail(recent_news))

\* The filter with its result turned round, the last news first.
relevant_news_reversed(new_news, isins) ==
    LET kept == SelectSeq(new_news, LAMBDA news : news.isin \in DOMAIN isins)
    IN  [i \in 1..Len(kept) |-> kept[Len(kept) + 1 - i]]

\* The filter with None taken for a match.
relevant_news_or_none(new_news, isins) ==
    SelectSeq(new_news, LAMBDA news : news.isin = None \/ news.isin \in DOMAIN isins)

\* relevant_news = [news for news in new_news if news.get('isin') in user_isins]
relevant_news(new_news, isins) ==
    SelectSeq(new_news, LAMBDA news : news.isin \in DOMAIN isins)

-----------------------------------------------------------------------------
(* The inputs of the model: subscribers, the codes they type, what the     *)
(* remote site serves and the dates of the clock.                          *)

NumUsers == 2
Users == 1..NumUsers

IsinX == <<"R","U","0","0","0","A","1","0","6","S","E","5">>
IsinY == <<"R","U","S","S","0","0","0","0","0","0","0","0">>

\* context.args[0] of /add; None stands for /add without an argument.
AddArgs ==
    { IsinX,
      <<"r","u","0","0","0","a","1","0","6","s","e","5">>,
      <<"R","U","1","2","3">>,
      <<"R","U","eszett","0","0","0","0","0","0","0","0">>,
      None }

Date1 == <<"0","3",".","1","1",".","2","0","2","6">>
Date2 == <<"0","4",".","1","1",".","2","0","2","6">>
Dates == {Date1, Date2}

PageCoupon ==
    [h1 |-> <<" ">> \o <<"CY_V">> \o Tail(KwCoupon) \o <<" ">> \o IsinX \o <<"\n">>,
     body |-> <<"1","2",",","5","0"," ","CY_R","cy_u","cy_b">>,
     time |-> Date1]
PageRedemption ==
    [h1 |-> <<"CY_P">> \o Tail(KwRedemption) \o <<" ">> \o IsinY,
     body |-> <<>>,
     time |-> <<" ">> \o Date2]
PageBare == [h1 |-> None, body |-> <<"5"," ","cy_r","cy_u","cy_b">>, time |-> None]

A101 == [href |-> <<"", "ru", "news", "view", "101">>, text |-> "Kupon"]
A101b == [href |-> <<"", "ru", "news", "view", "101">>, text |-> "Kupon (ispravleno)"]
A102 == [href |-> <<"https:", "", "nsddata.ru", "ru", "news", "view", "102">>, text |-> ""]
A103 == [href |-> <<"", "ru", "news", "view", "103">>, text |-> "Oferta"]
AAbout == [href |-> <<"", "ru", "about">>, text |-> "O kompanii"]

\* What the GET of the index may answer.
Responses ==
    { [kind |-> "ok", anchors |-> <<AAbout, A101, A102>>, page |-> PageCoupon],
      [kind |-> "ok", anchors |-> <<A102, A103, A102>>, page |-> PageRedemption],
      [kind |-> "ok", anchors |-> <<A101b, A103>>, page |-> PageBare],
      [kind |-> "ok", anchors |-> <<AAbout>>, page |-> PageBare],
      [kind |-> "bad_status", anchors |-> <<A103>>, page |-> PageBare],
      [kind |-> "network", anchors |-> <<>>, page |-> PageBare],
      [kind |-> "timeout", anchors |-> <<>>, page |-> PageBare] }

\* Titles are made of at most MaxPieces of these, with a space between two: the
\* three keywords, each in lower case and with capitals, the first word of the
\* coupon keyword alone, and an ISIN.
MaxPieces == 3

Pieces ==
    { KwCoupon, upper(KwCoupon),
      KwRedemption, <<"CY_P">> \o Tail(KwRedemption),
      KwOffer, upper(KwOffer),
      SubSeq(KwCoupon, 1, 7),
      IsinX }

TitlePieces == UNION {[1..n -> Pieces] : n \in 1..MaxPieces}

RECURSIVE Title(_)
Title(pieces) ==
    IF Len(pieces) = 1 THEN pieces[1]
    ELSE pieces[1] \o <<" ">> \o Title(Tail(pieces))

\* An index with more item links than one run takes.
NumLinks == 12

Link(k) ==
    [href |-> <<"", "ru", "news", "view", ToString(200 + k)>>, text |-> "Novost"]

LongIndex ==
    [kind |-> "ok",
     anchors |-> <<AAbout>> \o [k \in 1..NumLinks |-> Link(k)],
     page |-> PageCoupon]

\* The same links, the newest first.
LongIndexReversed ==
    [kind |-> "ok",
     anchors |-> [k \in 1..NumLinks |-> Link(NumLinks + 1 - k)] \o <<AAbout>>,
     page |-> PageCoupon]

IndexResponses == Responses \cup {LongIndex, LongIndexReversed}

\* The page of one item, at its news_url: 101 is about IsinX, 102 about IsinY.
ItemPage(news_id) ==
    IF news_id = "101" THEN PageCoupon
    ELSE IF news_id = "102" THEN PageRedemption
    ELSE PageBare

\* get_recent_news on each answer of the model, worked out once.
recent_news_of ==
    [response \in IndexResponses, now \in Dates |-> get_recent_news(response, now)]

\* check_new_news on the ledger `table`: the ledger after it, what it returns,
\* and the news_ids for which save_news returned true.
check_new_news(table, response, now) ==
    check_loop([table |-> table, new_news |-> <<>>, inserted |-> <<>>],
               recent_news_of[response, now])

\* show_last_news that runs check_new_news where it calls get_recent_news.
show_last_news_saving(table, response, now) ==
    [table |-> check_new_news(table, response, now).table,
     shown |-> Take(recent_news_of[response, now], 5)]

LastShown == 5

\* show_last_news: the ledger after it and the news it lists, lines 258-271.
show_last_news(table, response, now) ==
    [table |-> table, shown |-> Take(recent_news_of[response, now], LastShown)]

-----------------------------------------------------------------------------
(* The state                                                               *)

VARIABLES
    tracked_news,       \* table tracked_news
    user_isins_exists,  \* whether table user_isins has been created
    user_isins,         \* table user_isins
    job,                \* the frame of scheduled_news_check
    cmd,                \* the frame of the command handler in flight
    cycle,              \* the last call of check_new_news: what the GET answered,
                        \* whether that is what the call before saw, what the
                        \* call returned and the GETs it issued
    result,             \* the last finished command and its reply
    saved,              \* bag of the news_ids for which save_news returned true
    returned,           \* bag of the news_ids returned by check_new_news
    sent,               \* bag of the <<user_id, news_id>> of the sends attempted
    routing,            \* the relevant_news lists of the last scheduled check,
                        \* with who tracked what of its news when it inserted them
    unrouted,           \* <<user_id, news_id>>: user tracked the isin of news when
                        \* it was inserted, and it was in no relevant_news of
                        \* user since
    order,              \* of the last scheduled check (job) and the last manual
                        \* check (cmd): the news_ids get_recent_news returned, those
                        \* check_new_news returned, and the sends attempted, each
                        \* list in the order it was made
    call,               \* the last call of parse_news_page made for itself
    observe             \* which of the records above this run keeps

vars == <<tracked_news, user_isins_exists, user_isins, job, cmd, cycle, result,
          saved, returned, sent, routing, unrouted, order, call, observe>>

(* The program's state is the two tables and the two frames.  The other     *)
(* variables record what the program did, for the properties to read; they  *)
(* change nothing of what it does.  A run keeps one group of them, named by *)
(* observe, and leaves the others as they start:                            *)
(*   "ledger":   cycle, saved, returned                                     *)
(*   "commands": result, of /add and /list                                  *)
(*   "reads":    result, of /list, /last and the /check that finds no code  *)
(*   "delivery": sent, returned, routing, unrouted                          *)
(*   "order":    order                                                      *)

store == <<tracked_news, user_isins_exists, user_isins>>
ledger == <<tracked_news, cycle, saved, returned>>

Keep(group, old, new) == IF observe \in group THEN new ELSE old

IdleJob ==
    [pc |-> "idle", new_news |-> <<>>, users |-> <<>>, user_id |-> 0,
     user_isins |-> EmptyBag, relevant_news |-> <<>>, i |-> 0]

IdleCmd ==
    [pc |-> "idle", user_id |-> 0, user_isins |-> EmptyBag,
     relevant_news |-> <<>>, i |-> 0]

NoBatch == [fetch |-> <<>>, new |-> <<>>, sent |-> <<>>]

NoCall == [pieces |-> <<>>, event_type |-> "none"]

NoResponse == [kind |-> "none", anchors |-> <<>>, page |-> PageBare]

\* NSDMonitor.__init__ on a new nsd_news.db: setup_database creates tracked_news
\* and nothing else.
Init ==
    /\ tracked_news = EmptyBag
    /\ user_isins_exists = FALSE
    /\ user_isins = EmptyBag
    /\ job = IdleJob
    /\ cmd = IdleCmd
    /\ cycle = [response |-> NoResponse, again |-> FALSE, new_news |-> <<>>,
                gets |-> 0]
    /\ result = [cmd |-> "none", user_id |-> 0, arg |-> None, reply |-> "none",
                 isins |-> EmptyBag]
    /\ saved = EmptyBag
    /\ returned = EmptyBag
    /\ sent = EmptyBag
    /\ routing = [new_news |-> <<>>, users |-> {}, tracking |-> {}, by |-> <<>>]
    /\ unrouted = {}
    /\ order = [job |-> NoBatch, cmd |-> NoBatch]
    /\ call = NoCall

InitLedger == Init /\ observe = "ledger"
InitCommands == Init /\ observe = "commands"
InitDelivery == Init /\ observe = "delivery"
InitOrder == Init /\ observe = "order"
InitReads == Init /\ observe = "reads"

-----------------------------------------------------------------------------
(* The steps.  The handlers and the job are coroutines of one event loop:  *)
(* a step is the code between two awaits, and runs alone.  The application *)
(* handles one update at a time, so a command starts only when no handler  *)
(* is in flight; the job runs beside the handler.                          *)

RECURSIVE BagOfSeq(_)
BagOfSeq(s) ==
    IF s = <<>> THEN EmptyBag ELSE SetToBag({Head(s)}) (+) BagOfSeq(Tail(s))

Elems(s) == {s[i] : i \in 1..Len(s)}

NewsIds(news_list) == [i \in 1..Len(news_list) |-> news_list[i].news_id]

\* The one requests.get of get_recent_news, which no loop repeats.
requests_per_call == 1

\* The <<user_id, news_id>> of the news of news_list whose isin user_id tracks
\* in table.
Tracking(news_list, table) ==
    {p \in Users \X Elems(NewsIds(news_list)) :
        \E news \in Elems(news_list) :
            /\ news.news_id = p[2]
            /\ BagIn([user_id |-> p[1], isin |-> news.isin], table)}

\* The record of a check that starts: what get_recent_news and check_new_news
\* returned, and no send yet.
Batch(response, now, r) ==
    [fetch |-> NewsIds(recent_news_of[response, now]),
     new |-> NewsIds(r.new_news),
     sent |-> <<>>]

Finished(name, user_id, arg, reply, isins) ==
    result' = Keep(IF name = "add" THEN {"commands"}
                   ELSE IF name = "list" THEN {"commands", "reads"}
                   ELSE {"reads"},
                   result,
                   [cmd |-> name, user_id |-> user_id, arg |-> arg, reply |-> reply,
                    isins |-> isins])

\* The effect of nsd_monitor.check_new_news() on the ledger, r being what it
\* did on `response`.
Checked(response, r) ==
    /\ tracked_news' = r.table
    /\ cycle' = Keep({"ledger"}, cycle,
                     [response |-> response, again |-> response = cycle.response,
                      new_news |-> r.new_news, gets |-> requests_per_call])
    /\ saved' = Keep({"ledger"}, saved, saved (+) BagOfSeq(r.inserted))
    /\ returned' = Keep({"ledger", "delivery"}, returned,
                        returned (+) BagOfSeq(NewsIds(r.new_news)))

\* add_isin: /add arg from user_id.
AddIsin(user_id, arg) ==
    /\ cmd.pc = "idle"
    /\ IF arg = None
       THEN /\ Finished("add", user_id, arg, "usage", EmptyBag)
            /\ UNCHANGED <<user_isins_exists, user_isins>>
       ELSE LET isin_code == strip(upper(arg))
            IN  IF ~MatchIsin(isin_code)
                THEN /\ Finished("add", user_id, arg, "rejected", EmptyBag)
                     /\ UNCHANGED <<user_isins_exists, user_isins>>
                ELSE LET a == add_isin_tracking(user_isins, isin_code, user_id)
                     IN  /\ user_isins_exists' = TRUE
                         /\ user_isins' = a.table
                         /\ Finished("add", user_id, arg,
                                     IF a.inserted THEN "added" ELSE "already",
                                     EmptyBag)
    /\ UNCHANGED <<observe, call, ledger, job, cmd, sent, routing, unrouted, order>>

\* list_isins: /list from user_id.
ListIsins(user_id) ==
    /\ cmd.pc = "idle"
    /\ LET isins == get_user_isins(user_isins_exists, user_isins, user_id)
       IN  IF ~user_isins_exists
           THEN Finished("list", user_id, None, "raised", EmptyBag)
           ELSE IF isins = EmptyBag
           THEN Finished("list", user_id, None, "none", isins)
           ELSE Finished("list", user_id, None, "list", isins)
    /\ UNCHANGED <<observe, call, store, ledger, job, cmd, sent, routing, unrouted,
                   order>>

\* manual_check up to its first await: lines 237-244.  Without the table
\* user_isins line 238 raises and the handler ends.
ManualStart(user_id) ==
    /\ cmd.pc = "idle"
    /\ LET isins == get_user_isins(user_isins_exists, user_isins, user_id)
       IN  IF ~user_isins_exists
           THEN /\ cmd' = cmd
                /\ Finished("check", user_id, None, "raised", EmptyBag)
           ELSE IF isins = EmptyBag
           THEN /\ cmd' = cmd
                /\ Finished("check", user_id, None, "none", isins)
           ELSE /\ cmd' = [IdleCmd EXCEPT !.pc = "announce", !.user_id = user_id,
                                          !.user_isins = isins]
                /\ result' = result
    /\ UNCHANGED <<observe, call, store, ledger, job, sent, routing, unrouted, order>>

\* show_last_news: /last, which has one await, its last statement.
ShowLastNews(response, now) ==
    /\ cmd.pc = "idle"
    /\ LET last == show_last_news(tracked_news, response, now)
       IN  /\ tracked_news' = last.table
           /\ Finished("last", 0, None,
                       IF last.shown = <<>> THEN "failed" ELSE "shown", EmptyBag)
    /\ UNCHANGED <<observe, call, user_isins_exists, user_isins, cycle, saved,
                   returned, job, cmd, sent, routing, unrouted, order>>

\* manual_check from the end of its first reply to its next await: lines 244-254.
\* delivered: whether the reply was sent; if not, reply_text raises and the
\* handler ends there.
ManualCheck(delivered, response, now) ==
    /\ cmd.pc = "announce"
    /\ IF ~delivered
       THEN /\ cmd' = IdleCmd
            /\ UNCHANGED <<ledger, unrouted, order>>
       ELSE LET r == check_new_news(tracked_news, response, now)
                relevant == relevant_news(r.new_news, cmd.user_isins)
            IN  /\ Checked(response, r)
                /\ order' = Keep({"order"}, order,
                       [order EXCEPT !.cmd = Batch(response, now, r)])
                /\ unrouted' = Keep({"delivery"}, unrouted,
                       (unrouted \cup Tracking(r.new_news, user_isins))
                           \ {<<cmd.user_id, id>> : id \in Elems(NewsIds(relevant))})
                /\ IF relevant = <<>>
                   THEN cmd' = IdleCmd
                   ELSE cmd' = [cmd EXCEPT !.pc = "send", !.relevant_news = relevant,
                                           !.i = 1]
    /\ UNCHANGED <<observe, call, user_isins_exists, user_isins, job, result, sent, routing>>

\* manual_check: the reply_text of line 252 for relevant_news[i] ends.
ManualSend(delivered) ==
    /\ cmd.pc = "send"
    /\ sent' = Keep({"delivery"}, sent,
           sent (+) SetToBag({<<cmd.user_id, cmd.relevant_news[cmd.i].news_id>>}))
    /\ order' = Keep({"order"}, order,
           [order EXCEPT !.cmd.sent =
               Append(@, <<cmd.user_id, cmd.relevant_news[cmd.i].news_id>>)])
    /\ IF ~delivered
       THEN cmd' = IdleCmd
       ELSE IF cmd.i < Len(cmd.relevant_news)
       THEN cmd' = [cmd EXCEPT !.i = cmd.i + 1]
       ELSE cmd' = IdleCmd
    /\ UNCHANGED <<observe, call, store, ledger, job, result, routing, unrouted>>

\* scheduled_news_check from `for (user_id,) in users` with `users` left to
\* visit, to its next await: the frame of the job there, and the users visited
\* on the way with the list of each.
RECURSIVE NextUser(_, _, _)
NextUser(new_news, users, table) ==
    IF users = <<>> THEN [job |-> IdleJob, visited |-> <<>>]
    ELSE LET isins == get_user_isins(TRUE, table, Head(users))
             relevant == relevant_news(new_news, isins)
             visit == [user_id |-> Head(users), isins |-> isins, list |-> relevant]
         IN  IF relevant = <<>>
             THEN LET rest == NextUser(new_news, Tail(users), table)
                  IN  [job |-> rest.job, visited |-> <<visit>> \o rest.visited]
             ELSE [job |-> [pc |-> "send", new_news |-> new_news,
                            users |-> Tail(users), user_id |-> Head(users),
                            user_isins |-> isins, relevant_news |-> relevant, i |-> 1],
                   visited |-> <<visit>>]

\* The same from the end of one turn of `for news in relevant_news`.
NextNews(frame, table) ==
    IF frame.i < Len(frame.relevant_news)
    THEN [job |-> [frame EXCEPT !.pc = "send", !.i = frame.i + 1], visited |-> <<>>]
    ELSE NextUser(frame.new_news, frame.users, table)

\* routing.by with the lists of `visited` entered.
Visited(by, visited) ==
    [u \in DOMAIN by \cup {visited[i].user_id : i \in 1..Len(visited)} |->
        IF \E i \in 1..Len(visited) : visited[i].user_id = u
        THEN LET i == CHOOSE j \in 1..Len(visited) :
                        /\ visited[j].user_id = u
                        /\ \A k \in (j + 1)..Len(visited) : visited[k].user_id # u
             IN  [isins |-> visited[i].isins, list |-> visited[i].list]
        ELSE by[u]]

RoutedBy(visited) ==
    UNION {{<<visited[i].user_id, id>> : id \in Elems(NewsIds(visited[i].list))} :
              i \in 1..Len(visited)}

Continue(next) ==
    /\ job' = next.job
    /\ routing' = Keep({"delivery"}, routing,
                       [routing EXCEPT !.by = Visited(routing.by, next.visited)])
    /\ unrouted' = unrouted \ RoutedBy(next.visited)

\* scheduled_news_check to its first await: lines 299-317.  Without the table
\* user_isins line 307 raises and line 328 logs it.
ScheduledCheck(response, now) ==
    /\ job.pc = "idle"
    /\ LET r == check_new_news(tracked_news, response, now)
       IN  /\ Checked(response, r)
           /\ order' = Keep({"order"}, order,
                  [order EXCEPT !.job = Batch(response, now, r)])
           /\ IF r.new_news = <<>> \/ ~user_isins_exists
              THEN UNCHANGED <<job, routing, unrouted>>
              ELSE \E users \in SelectDistinctUserIds(user_isins) :
                     LET next == NextUser(r.new_news, users, user_isins)
                     IN  /\ job' = next.job
                         /\ routing' = Keep({"delivery"}, routing,
                                [new_news |-> r.new_news,
                                 users |-> Elems(users),
                                 tracking |-> Tracking(r.new_news, user_isins),
                                 by |-> Visited(<<>>, next.visited)])
                         /\ unrouted' = Keep({"delivery"}, unrouted,
                                (unrouted \cup Tracking(r.new_news, user_isins))
                                    \ RoutedBy(next.visited))
    /\ UNCHANGED <<observe, call, user_isins_exists, user_isins, cmd, result, sent>>

\* scheduled_news_check: the send_message of line 317 ends.  If it raised, line
\* 325 logs and the loop goes on; if not, line 323 sleeps.
ScheduledSend(delivered) ==
    /\ job.pc = "send"
    /\ sent' = Keep({"delivery"}, sent,
           sent (+) SetToBag({<<job.user_id, job.relevant_news[job.i].news_id>>}))
    /\ order' = Keep({"order"}, order,
           [order EXCEPT !.job.sent =
               Append(@, <<job.user_id, job.relevant_news[job.i].news_id>>)])
    /\ IF delivered
       THEN /\ job' = [job EXCEPT !.pc = "sleep"]
            /\ UNCHANGED <<routing, unrouted>>
       ELSE Continue(NextNews(job, user_isins))
    /\ UNCHANGED <<observe, call, store, ledger, cmd, result>>

\* scheduled_news_check: asyncio.sleep(1) of line 323 ends.
ScheduledWake ==
    /\ job.pc = "sleep"
    /\ Continue(NextNews(job, user_isins))
    /\ UNCHANGED <<observe, call, store, ledger, cmd, result, sent, order>>

Next ==
    \/ \E user_id \in Users, arg \in AddArgs : AddIsin(user_id, arg)
    \/ \E user_id \in Users : ListIsins(user_id)
    \/ \E response \in Responses, now \in Dates : ShowLastNews(response, now)
    \/ \E user_id \in Users : ManualStart(user_id)
    \/ \E delivered \in BOOLEAN, response \in Responses, now \in Dates :
          ManualCheck(delivered, response, now)
    \/ \E delivered \in BOOLEAN : ManualSend(delivered)
    \/ \E response \in Responses, now \in Dates : ScheduledCheck(response, now)
    \/ \E delivered \in BOOLEAN : ScheduledSend(delivered)
    \/ ScheduledWake

SpecLedger == InitLedger /\ [][Next]_vars
SpecCommands == InitCommands /\ [][Next]_vars
SpecDelivery == InitDelivery /\ [][Next]_vars
SpecOrder == InitOrder /\ [][Next]_vars
SpecReads == InitReads /\ [][Next]_vars

\* parse_news_page called for itself, once, on a page whose h1 is the title
\* made of `pieces`.
Classify(pieces) ==
    /\ call = NoCall
    /\ call' = [pieces |-> pieces,
                event_type |->
                    parse_news_page([h1 |-> <<"\n", " ">> \o Title(pieces) \o <<" ">>,
                                     body |-> <<>>, time |-> None],
                                    Date1).event_type]
    /\ UNCHANGED <<store, job, cmd, cycle, result, saved, returned, sent, routing,
                   unrouted, order, observe>>

NextTitles == \E pieces \in TitlePieces : Classify(pieces)

SpecTitles == InitLedger /\ [][NextTitles]_vars

\* The scheduled check alone, on a database nobody has subscribed to, with the
\* long indexes among the answers: check_new_news from one ledger to the next.
NextCycle ==
    \E response \in IndexResponses, now \in Dates : ScheduledCheck(response, now)

SpecCycle == InitLedger /\ [][NextCycle]_vars

-----------------------------------------------------------------------------
(* The properties                                                          *)

\* A step in which check_new_news ran and that shows in the ledger or in cycle.
CycleStep == cycle' # cycle \/ tracked_news' # tracked_news

\* The news_ids of the candidates of an answer, in the order of the index.
Candidates(response) ==
    IF response \in IndexResponses
    THEN NewsIds(recent_news_of[response, Date1]) ELSE <<>>

Subscribers(table) == {row.user_id : row \in BagToSet(table)}

\* C1, as stated: check_new_news run again on the answer the run before saw
\* returns nothing, and a run on another answer than the run before saw (the
\* first of two) returns something whenever the answer has a candidate,
\* whatever the ledger holds.
C1_FirstNonEmptyAlways ==
    [][CycleStep =>
          /\ cycle'.again => cycle'.new_news = <<>>
          /\ (~cycle'.again /\ Candidates(cycle'.response) # <<>>)
             => cycle'.new_news # <<>>]_vars

\* C1, amended: check_new_news run again on the answer the run before saw
\* returns nothing, whatever the ledger held; and a run returns something when
\* the answer has a candidate whose news_id the ledger does not hold yet.
C1_Idempotent ==
    [][CycleStep =>
          /\ cycle'.again => cycle'.new_news = <<>>
          /\ (\E id \in Elems(Candidates(cycle'.response)) :
                 ~is_news_tracked(tracked_news, id))
             => cycle'.new_news # <<>>]_vars

\* A second run on the same answer, which has candidates.
C1_Witness ==
    cycle.again /\ Candidates(cycle.response) # <<>>

\* C2: save_news returned true at most once for any news_id, and the ledger
\* holds at most one row for any news_id.
C2_LedgerUnique ==
    /\ \A id \in BagToSet(saved) : CopiesIn(id, saved) = 1
    /\ \A row \in BagToSet(tracked_news) : CopiesIn(row, tracked_news) = 1
    /\ \A r1, r2 \in BagToSet(tracked_news) : r1.news_id = r2.news_id => r1 = r2

\* A manual check has run, and was offered a news_id that the scheduled check,
\* still sending, had inserted.
C2_Witness ==
    /\ job.pc # "idle"
    /\ cmd.pc = "send"
    /\ Elems(cmd.relevant_news) \subseteq Elems(cycle.new_news)
    /\ Elems(Candidates(cycle.response)) \cap Elems(NewsIds(job.new_news)) # {}

\* C3: no news_id is returned by two runs of check_new_news (or twice by one),
\* and no send is attempted twice for one subscriber and news_id.
C3_AtMostOnce ==
    /\ \A id \in BagToSet(returned) : CopiesIn(id, returned) = 1
    /\ \A p \in BagToSet(sent) : CopiesIn(p, sent) = 1

\* The scheduled check and a manual check are both sending, after two sends.
C3_Witness ==
    /\ job.pc \in {"send", "sleep"}
    /\ cmd.pc = "send"
    /\ BagCardinality(sent) >= 2

\* What C4 says user_id is to get of news_list, with the subscriptions of table.
Routes(news_list, user_id, table) ==
    SelectSeq(news_list, LAMBDA news :
        /\ news.isin # None
        /\ BagIn([user_id |-> user_id, isin |-> news.isin], table))

\* C4: a scheduled check with new news is to visit exactly the subscribers, the
\* list it makes for one of them holds a news if and only if its isin is not
\* None and the subscriber tracks it, and when it ends it has visited them all.
C4_Routing ==
    [][/\ routing'.new_news # routing.new_news
          => routing'.users = Subscribers(user_isins)
       /\ \A u \in DOMAIN routing'.by :
            (u \notin DOMAIN routing.by \/ routing'.new_news # routing.new_news)
            => routing'.by[u].list = Routes(routing'.new_news, u, user_isins)
       /\ (job'.pc = "idle" /\ (job.pc # "idle" \/ routing' # routing))
          => DOMAIN routing'.by = routing'.users]_vars

\* One scheduled check made a list with news for one subscriber and an empty
\* list for another, who tracks a code.
C4_Witness ==
    \E u1, u2 \in DOMAIN routing.by :
        /\ routing.by[u1].list # <<>>
        /\ routing.by[u2].list = <<>>
        /\ routing.by[u2].isins # EmptyBag

\* C5: once no check is running, every news inserted has been in a
\* relevant_news list of every subscriber who tracked its isin at the insert.
C5_AllRouted ==
    (job.pc = "idle" /\ cmd.pc = "idle") => unrouted = {}

AsciiAlnum ==
    DigitChars \cup UpperAZ \cup {AsciiLower[i] : i \in 1..Len(AsciiLower)}

\* "RU" and exactly 10 alphanumeric characters, letters in either case.
IsinShaped(code) ==
    /\ Len(code) = IsinLen
    /\ code[1] \in {"R", "r"}
    /\ code[2] \in {"U", "u"}
    /\ \A k \in 3..IsinLen : code[k] \in AsciiAlnum

\* C6: /add accepts only a code that is "RU" and 10 alphanumeric characters,
\* and every code of user_isins matches the pattern.
C6_RejectsInvalid ==
    /\ (result.cmd = "add" /\ result.reply \in {"added", "already"})
       => IsinShaped(result.arg)
    /\ \A row \in BagToSet(user_isins) : MatchIsin(row.isin)

\* A step in which /add ran and that shows in result or in user_isins.
AddStep == result'.cmd = "add" /\ (result' # result \/ user_isins' # user_isins)

\* C7: an accepted /add answers "added" if and only if the subscriber does not
\* track the code, in upper case, yet; answering "already" it changes neither
\* table; after it the subscriber's list holds the code once; and no row of
\* user_isins is there twice.
C7_AddIdempotent ==
    [][(AddStep /\ result'.reply \in {"added", "already"}) =>
          LET row == [user_id |-> result'.user_id, isin |-> upper(result'.arg)]
          IN  /\ result'.reply = "added" <=> ~BagIn(row, user_isins)
              /\ result'.reply = "already"
                 => user_isins' = user_isins /\ tracked_news' = tracked_news
              /\ get_user_isins(TRUE, user_isins', row.user_id)[row.isin] = 1
              /\ \A r \in BagToSet(user_isins') : CopiesIn(r, user_isins') = 1]_vars

\* /add of a code in lower case answered "already".
C7_Witness ==
    /\ result.cmd = "add"
    /\ result.reply = "already"
    /\ result.arg # upper(result.arg)
    /\ BagIn([user_id |-> result.user_id, isin |-> upper(result.arg)], user_isins)

\* C8: /list of a subscriber who tracks nothing answers the empty list, and
\* does not fail.
C8_ListEmpty ==
    (result.cmd = "list" /\ result.user_id \notin Subscribers(user_isins))
    => result.reply = "none"

\* C9: check_new_news on a GET that failed returns nothing, issued one GET and
\* left the ledger as it was.
C9_FetchFailure ==
    [][(CycleStep /\ cycle'.response.kind # "ok") =>
          /\ cycle'.new_news = <<>>
          /\ cycle'.gets = 1
          /\ tracked_news' = tracked_news]_vars

\* A run on a failed GET, with news in the ledger.
C9_Witness ==
    /\ cycle.response.kind \in {"bad_status", "network", "timeout"}
    /\ tracked_news # EmptyBag

\* The candidates of the last run of check_new_news.
LastCandidates ==
    IF cycle.response \in IndexResponses
    THEN recent_news_of[cycle.response, Date1] ELSE <<>>

\* C10: the isin, event_type, payment_amount and published_date of a candidate
\* are those of its own page, so candidates whose pages name different isins
\* have different isins.
C10_OwnPage ==
    /\ \A news \in Elems(LastCandidates) :
         LET own == parse_news_page(ItemPage(news.news_id), news.published_date)
         IN  /\ news.isin = own.isin
             /\ news.event_type = own.event_type
             /\ news.payment_amount = own.payment_amount
             /\ news.published_date = own.published_date
    /\ \A n1, n2 \in Elems(LastCandidates) :
         parse_news_page(ItemPage(n1.news_id), Date1).isin
             # parse_news_page(ItemPage(n2.news_id), Date1).isin
         => n1.isin # n2.isin

\* Whether a subscriber still to be visited by the scheduled check has news of
\* its batch to get.
JobRemaining ==
    \E k \in 1..Len(job.users) :
        relevant_news(job.new_news,
                      get_user_isins(TRUE, user_isins, job.users[k])) # <<>>

\* C11: a batch of deliveries ends only after its last delivery was attempted,
\* whatever deliveries failed: the manual check ends at the last news of its
\* list, and the scheduled check at the last news of the last subscriber who
\* has any.
C11_NoAbort ==
    [][/\ (cmd.pc = "send" /\ cmd'.pc = "idle")
          => cmd.i = Len(cmd.relevant_news)
       /\ (job.pc \in {"send", "sleep"} /\ job'.pc = "idle")
          => (job.i = Len(job.relevant_news) /\ ~JobRemaining)]_vars

\* C12: no step ends one delivery call and issues the next: between two
\* delivery calls of a check there is the pause, whether the earlier call
\* failed or not, in the manual check as in the scheduled one.
C12_Paced ==
    [][/\ ~(cmd.pc = "send" /\ cmd'.pc = "send" /\ cmd' # cmd)
       /\ ~(job.pc = "send" /\ job'.pc = "send" /\ job' # job)]_vars

\* C16: check_new_news inserts into the ledger only while no other check is
\* between its fetch and its last delivery.
C16_NoOverlap ==
    [][tracked_news' # tracked_news
          => (job.pc = "idle" /\ cmd.pc # "send")]_vars

\* C13: a row of the ledger is in the ledger after every step, as it was, and
\* no other row with its news_id is.
C13_AppendOnly ==
    [][\A row \in BagToSet(tracked_news) :
          /\ BagIn(row, tracked_news')
          /\ \A other \in BagToSet(tracked_news') :
                other.news_id = row.news_id => other = row]_vars

\* The last run of check_new_news was offered a news_id of the ledger with
\* other fields than the ledger holds.
C13_Witness ==
    \E row \in BagToSet(tracked_news) :
        \E news \in Elems(LastCandidates) :
            /\ news.news_id = row.news_id
            /\ news.title # row.title
            /\ news.isin # row.isin

Keys(table) == {row.news_id : row \in BagToSet(table)}

\* The first occurrence of each candidate whose news_id is not in seen.
RECURSIVE FirstAbsent(_, _)
FirstAbsent(candidates, seen) ==
    IF candidates = <<>> THEN <<>>
    ELSE IF Head(candidates).news_id \in seen
    THEN FirstAbsent(Tail(candidates), seen)
    ELSE <<Head(candidates)>>
             \o FirstAbsent(Tail(candidates), seen \cup {Head(candidates).news_id})

\* C18: check_new_news returns the first occurrence of each candidate whose
\* news_id the ledger did not hold, no news_id twice; it adds these records and
\* nothing else to the ledger, whose news_ids are then the old ones and those
\* of all the candidates.
C18_ExactResult ==
    [][CycleStep =>
          \E now \in Dates :
              LET candidates == recent_news_of[cycle'.response, now]
                  expected == FirstAbsent(candidates, Keys(tracked_news))
              IN  /\ cycle'.new_news = expected
                  /\ \A i, j \in 1..Len(cycle'.new_news) :
                        cycle'.new_news[i].news_id = cycle'.new_news[j].news_id
                        => i = j
                  /\ tracked_news' = tracked_news (+) BagOfSeq(expected)
                  /\ Keys(tracked_news')
                        = Keys(tracked_news) \cup Elems(NewsIds(candidates))]_vars

\* A run whose candidates repeat a news_id, some of them in the ledger before
\* it and some not.
C18_Witness ==
    LET ids == Candidates(cycle.response)
    IN  /\ Len(ids) > Cardinality(Elems(ids))
        /\ cycle.new_news # <<>>
        /\ Len(cycle.new_news) < Cardinality(Elems(ids))

\* The news_ids of the item links of an answer, in the order of the index.
Links(response) ==
    LET matching == SelectSeq(response.anchors, LAMBDA a :
                        \E i \in 1..(Len(a.href) - 3) :
                            <<a.href[i], a.href[i + 1], a.href[i + 2]>>
                                = <<"ru", "news", "view">>)
    IN  [i \in 1..Len(matching) |-> matching[i].href[Len(matching[i].href)]]

\* C14: a run of check_new_news returns at most 10 news and adds at most 10
\* rows to the ledger, and every news_id it adds is of one of the first 10 item
\* links of the index.
C14_BoundedWork ==
    [][CycleStep =>
          LET links == Links(cycle'.response)
              first == {links[i] : i \in {j \in 1..Len(links) : j <= 10}}
          IN  /\ Len(cycle'.new_news) <= 10
              /\ BagCardinality(tracked_news') <= BagCardinality(tracked_news) + 10
              /\ Keys(tracked_news') \ Keys(tracked_news) \subseteq first]_vars

\* A run on an index of more than 10 item links returned 10 news and left the
\* eleventh link out of the ledger.
C14_Witness ==
    LET links == Links(cycle.response)
    IN  /\ Len(links) > 10
        /\ Len(cycle.new_news) = 10
        /\ links[11] \notin Keys(tracked_news)

\* Whether sub is whole with some of its elements left out.
RECURSIVE InOrder(_, _)
InOrder(sub, whole) ==
    IF sub = <<>> THEN TRUE
    ELSE IF whole = <<>> THEN FALSE
    ELSE IF Head(sub) = Head(whole) THEN InOrder(Tail(sub), Tail(whole))
    ELSE InOrder(sub, Tail(whole))

\* The news_ids of the sends of a batch to user_id, in the order of the sends.
SentTo(batch, user_id) ==
    LET sends == SelectSeq(batch.sent, LAMBDA p : p[1] = user_id)
    IN  [i \in 1..Len(sends) |-> sends[i][2]]

\* C15: the news check_new_news returns are in the order get_recent_news listed
\* them, and the sends of a check to one subscriber are in the order of the news
\* check_new_news returned.
C15_Order ==
    \A batch \in {order.job, order.cmd} :
        /\ InOrder(batch.new, batch.fetch)
        /\ \A user_id \in Users : InOrder(SentTo(batch, user_id), batch.new)

\* A scheduled check that passed over a candidate attempted two sends to one
\* subscriber.
C15_Witness ==
    /\ Len(order.job.new) >= 2
    /\ Len(order.job.new) < Len(order.job.fetch)
    /\ \E user_id \in Users : Len(SentTo(order.job, user_id)) >= 2

\* What a piece of a title is a spelling of.
KindOf(piece) ==
    IF piece \in {KwCoupon, upper(KwCoupon)} THEN "coupon"
    ELSE IF piece \in {KwRedemption, <<"CY_P">> \o Tail(KwRedemption)} THEN "redemption"
    ELSE IF piece \in {KwOffer, upper(KwOffer)} THEN "offer"
    ELSE "other"

Has(pieces, kind) == \E i \in 1..Len(pieces) : KindOf(pieces[i]) = kind

\* C17: the event_type of a title is the coupon payment if the title has the
\* coupon keyword in any case, else the redemption if it has that keyword, else
\* the offer if it has that one, else unknown, wherever in the title the
\* keywords stand.
C17_FirstMatch ==
    call # NoCall =>
        call.event_type =
            IF Has(call.pieces, "coupon") THEN "Vyplata kuponnogo dohoda"
            ELSE IF Has(call.pieces, "redemption") THEN "Pogashenie"
            ELSE IF Has(call.pieces, "offer") THEN "Oferta"
            ELSE "Neizvestno"

\* A title with the offer keyword, then the redemption keyword, then the coupon
\* keyword in capitals, taken for a coupon payment.
C17_Witness ==
    /\ Len(call.pieces) = 3
    /\ KindOf(call.pieces[1]) = "offer"
    /\ KindOf(call.pieces[2]) = "redemption"
    /\ call.pieces[3] = upper(KwCoupon)
    /\ call.event_type = "Vyplata kuponnogo dohoda"

\* A step in which /list, /last or a /check that found no code to check ended.
ReadStep == result' # result /\ result'.cmd \in {"list", "last", "check"}

\* C19: /list, /last and the /check of a subscriber who tracks no code leave
\* the ledger and the subscriptions as they were, so that check_new_news
\* returns after them what it would have returned before, whatever the index.
C19_ReadOnly ==
    [][ReadStep =>
          /\ tracked_news' = tracked_news
          /\ user_isins' = user_isins
          /\ user_isins_exists' = user_isins_exists
          /\ \A response \in Responses, now \in Dates :
                check_new_news(tracked_news', response, now).new_news
                    = check_new_news(tracked_news, response, now).new_news]_vars

\* /last listed news and the ledger holds none.
C19_Witness ==
    /\ result.cmd = "last"
    /\ result.reply = "shown"
    /\ tracked_news = EmptyBag

\* C20: every news in a relevant_news list of a scheduled check has an isin
\* that the subscriber of the list tracked when the check inserted the news.
C20_AsOfIngestion ==
    \A user_id \in DOMAIN routing.by :
        \A news_id \in Elems(NewsIds(routing.by[user_id].list)) :
            <<user_id, news_id>> \in routing.tracking

=============================================================================
